---- MODULE Spec2Model ----
(***************************************************************************)
(* A model of the AI scheduling agent: the dialogue state machine of       *)
(* ai_scheduling_agent/agent.py (router, stage handlers, process_message,  *)
(* reset_conversation) and the three CSV stores of                         *)
(* ai_scheduling_agent/tools.py (patients, doctor schedule, appointments). *)
(*                                                                         *)
(* Conventions.  A dict field that is absent (or holds an empty string) is *)
(* the empty string "", an absent number is 0, an absent is_returning is   *)
(* "None".  Replies are pairs <<kind, n>>: the kind of the fixed text the  *)
(* code emits and the number it formats into it (0 when it formats none).  *)
(* The message history is kept as its length, saturated at HistCap: the    *)
(* code reads only len(messages) <= 1 and the last message.                *)
(***************************************************************************)
EXTENDS Integers, Sequences, FiniteSets, TLC

\* ------------------------------------------------------------------------
\* Bounds of the model
\* ------------------------------------------------------------------------
\* the ledger is append-only; a booking is possible while it is shorter
MaxLedger == 2
\* the same where store files may fail
MaxLedgerFaults == 1
\* ledger records in the runs of two threads with resets
MaxLedgerPair == 1
\* the days of one doctor's schedule where more slots exist than are offered
MaxDays == 9
\* a booking is possible while the directory is shorter
MaxPatients == 4
\* the history length is counted up to this value
HistCap == 2
\* the clock (in slot days) may advance up to this value
MaxNow == 1
\* store failures and raised steps in one run, where they may happen
MaxFaults == 1

\* ------------------------------------------------------------------------
\* Program constants
\* ------------------------------------------------------------------------
NoId == 0
ErrorId == -1
ReturningDuration == 30
NewDuration == 60
MaxOffered == 8

Sessions == {"s1", "s2"}

Chen == "Dr. Emily Chen"
Rodriguez == "Dr. David Rodriguez"

\* One schedule row per (doctor, date, time); dates are day numbers, a slot
\* is in the future while its day is later than the clock.
Range(f) == {f[x] : x \in DOMAIN f}

Slot(d, day, t) == [doctor_name |-> d, date |-> day, time |-> t]
Slots == {Slot(Chen, 1, "09:00"), Slot(Chen, 2, "09:00"), Slot(Rodriguez, 1, "09:00")}

\* ------------------------------------------------------------------------
\* Messages a user may type, and what the text functions of the code make
\* of each of them.
\* ------------------------------------------------------------------------
AllMsgs ==
  { "Hello", "book an appointment", "cancel", "cancel my appointment",
    "I am John Doe", "John Doe", "Jane Smith", "Lisa Brown", "Lisa", "okay",
    "03/15/1985", "07/22/1990", "09/05/1995", "123 Main St",
    "john.doe@example.com", "Dr. Emily Chen", "Dr. David Rodriguez",
    "0", "1", "2", "9", "self-pay", "Aetna", "", "Doe", "Smith", "Brown",
    "start conversation" }

\* str.lower() on the names the model uses
Lower(s) ==
  CASE s = "John" -> "john" [] s = "Doe" -> "doe"
    [] s = "Jane" -> "jane" [] s = "Smith" -> "smith"
    [] s = "Lisa" -> "lisa" [] s = "Brown" -> "brown"
    [] s = "I" -> "i"
    [] OTHER -> s

\* any(keyword in message_content for keyword in cancel_keywords)
HasCancelKeyword(m) == m \in {"cancel", "cancel my appointment"}

\* any(keyword in message_content for keyword in schedule_keywords)
HasScheduleKeyword(m) == m \in {"book an appointment", "cancel my appointment"}

\* a keyword test that no message passes
HasSelfPayKeyword_never(m) == FALSE

\* any(keyword in message_content for keyword in self_pay_keywords)
HasSelfPayKeyword(m) == m \in {"self-pay"}

\* the doctor keywords of _smart_scheduling_node
DoctorInMessage(m) ==
  CASE m = "Dr. Emily Chen" -> Chen
    [] m = "Dr. David Rodriguez" -> Rodriguez
    [] OTHER -> ""

\* int(content.strip()) succeeds
IsInt(m) == m \in {"0", "1", "2", "9"}

\* int(content.strip()), where it succeeds
ParseInt(m) ==
  CASE m = "0" -> 0 [] m = "1" -> 1 [] m = "2" -> 2 [] m = "9" -> 9

\* content.strip() is truthy
NonEmpty(m) == m # ""

\* _simple_name_extraction: <<first, last>>, "" for None
SimpleNameExtraction(m) ==
  CASE m \in {"I am John Doe", "John Doe"} -> <<"John", "Doe">>
    [] m = "Jane Smith" -> <<"Jane", "Smith">>
    [] m = "Lisa Brown" -> <<"Lisa", "Brown">>
    [] m = "Dr. Emily Chen" -> <<"Emily", "Chen">>
    [] m = "Dr. David Rodriguez" -> <<"David", "Rodriguez">>
    [] m = "123 Main St" -> <<"Main", "St">>
    [] OTHER -> <<"", "">>

NonNameResponses == {"okay"}

\* _normalize_date_format: the first strptime format that parses, else the text
NormalizeDate(m) ==
  CASE m = "03/15/1985" -> "1985-03-15"
    [] m = "07/22/1990" -> "1990-07-22"
    [] m = "09/05/1995" -> "1995-09-05"
    [] OTHER -> m

\* user_input.split(): first and last token
FirstToken(m) ==
  CASE m = "I am John Doe" -> "I"
    [] m = "John Doe" -> "John" [] m = "Jane Smith" -> "Jane"
    [] m = "Lisa Brown" -> "Lisa"
    [] m = "book an appointment" -> "book"
    [] m = "cancel my appointment" -> "cancel"
    [] m = "123 Main St" -> "123"
    [] m \in {"Dr. Emily Chen", "Dr. David Rodriguez"} -> "Dr."
    [] OTHER -> m

LastToken(m) ==
  CASE m \in {"I am John Doe", "John Doe"} -> "Doe"
    [] m = "Jane Smith" -> "Smith"
    [] m = "Lisa Brown" -> "Brown"
    [] m \in {"book an appointment", "cancel my appointment"} -> "appointment"
    [] m = "123 Main St" -> "St"
    [] m = "Dr. Emily Chen" -> "Chen"
    [] m = "Dr. David Rodriguez" -> "Rodriguez"
    [] OTHER -> m

\* ------------------------------------------------------------------------
\* The stores (tools.py).  patients and ledger are the rows of their files
\* in file order; schedule maps each row's key to its is_available flag.
\* A flag pfail / afail / sfail says that reading or writing the patients /
\* appointments / schedule file raises during the call.
\* ------------------------------------------------------------------------
NoTime == -1

\* patients.csv as _create_sample_patients writes it without Faker
BasicPatients ==
  << [first_name |-> "John", last_name |-> "Doe", dob |-> "1985-03-15", is_returning |-> TRUE],
     [first_name |-> "Jane", last_name |-> "Smith", dob |-> "1990-07-22", is_returning |-> FALSE] >>

\* the rows of a table that satisfy a test, in file order
RECURSIVE SelectSeq2(_, _)
SelectSeq2(rows, keep) ==
  IF rows = <<>> THEN <<>>
  ELSE IF Head(rows) \in keep THEN <<Head(rows)>> \o SelectSeq2(Tail(rows), keep)
  ELSE SelectSeq2(Tail(rows), keep)

SamePatient(row, first, last, dob) ==
  /\ Lower(row.first_name) = Lower(first)
  /\ Lower(row.last_name) = Lower(last)
  /\ row.dob = dob

lookup_patient(patients, first, last, dob, pfail) ==
  IF pfail \/ patients = <<>> THEN FALSE
  ELSE LET dob_formatted == NormalizeDate(dob)
           match == SelectSeq2(patients,
                      {r \in Range(patients) : SamePatient(r, first, last, dob_formatted)})
       IN IF match # <<>> THEN match[1].is_returning ELSE FALSE

\* available.sort_values('datetime'): earliest first
\* a sort that puts the latest slot first
RECURSIVE SortByDate_latest_first(_)
SortByDate_latest_first(S) ==
  IF S = {} THEN <<>>
  ELSE LET first == CHOOSE x \in S : \A y \in S : x.date >= y.date
       IN <<first>> \o SortByDate_latest_first(S \ {first})

RECURSIVE SortByDate(_)
SortByDate(S) ==
  IF S = {} THEN <<>>
  ELSE LET first == CHOOSE x \in S : \A y \in S : x.date <= y.date
       IN <<first>> \o SortByDate(S \ {first})

FirstN(seq, n) == SubSeq(seq, 1, IF Len(seq) < n THEN Len(seq) ELSE n)

get_available_slots(schedule, doctor, now, sfail) ==
  IF sfail THEN <<>>
  ELSE LET future_slots == {s \in DOMAIN schedule : s.date > now}
           available == {s \in future_slots : schedule[s]}
           filtered == IF doctor # "" THEN {s \in available : s.doctor_name = doctor}
                       ELSE available
       IN FirstN(SortByDate(filtered), MaxOffered)

_add_new_patient(patients, patient_info, pfail) ==
  IF pfail THEN patients
  ELSE Append(patients, [first_name |-> patient_info.first_name,
                         last_name |-> patient_info.last_name,
                         dob |-> patient_info.dob,
                         is_returning |-> TRUE])

\* an update that matches the slots by doctor alone
_update_schedule_availability_by_doctor(schedule, doctor, date, time, is_available, sfail) ==
  IF sfail THEN schedule
  ELSE [s \in DOMAIN schedule |->
          IF s.doctor_name = doctor THEN is_available ELSE schedule[s]]

_update_schedule_availability(schedule, doctor, date, time, is_available, sfail) ==
  IF sfail THEN schedule
  ELSE [s \in DOMAIN schedule |->
          IF s.doctor_name = doctor /\ s.date = date /\ s.time = time
          THEN is_available ELSE schedule[s]]

\* uuid4()[:8]: an identifier no record of the ledger carries
NewAppointmentId(ledger) == Len(ledger) + 1

AppointmentData(id, p, a, i, now) ==
  [appointment_id |-> id,
   patient_first_name |-> p.first_name,
   patient_last_name |-> p.last_name,
   patient_dob |-> p.dob,
   doctor_name |-> a.doctor_name,
   appointment_date |-> a.date,
   appointment_time |-> a.time,
   duration_minutes |-> a.duration,
   is_returning_patient |-> p.is_returning,
   insurance_carrier |-> i.carrier,
   insurance_member_id |-> i.member_id,
   insurance_group_number |-> i.group_number,
   created_at |-> now,
   status |-> "Confirmed",
   cancellation_reason |-> "",
   cancelled_at |-> NoTime]

\* save_appointment: <<appointment id, patients, ledger, schedule>> after it
save_appointment(st, p, a, i, now, f) ==
  LET patients1 == IF p.is_returning # "True"
                   THEN _add_new_patient(st.patients, p, f.pfail)
                   ELSE st.patients
      id == NewAppointmentId(st.ledger)
  IN IF f.afail
     THEN [id |-> ErrorId, patients |-> patients1, ledger |-> st.ledger,
           schedule |-> st.schedule]
     ELSE [id |-> id, patients |-> patients1,
           ledger |-> Append(st.ledger, AppointmentData(id, p, a, i, now)),
           schedule |-> _update_schedule_availability(
                          st.schedule, a.doctor_name, a.date, a.time, FALSE, f.sfail)]

\* a lookup that sorts the matches oldest first
find_appointment_by_patient_oldest(ledger, p, afail) ==
  IF afail \/ ledger = <<>> THEN {0}
  ELSE LET confirmed == {k \in 1..Len(ledger) : ledger[k].status = "Confirmed"}
           dob_normalized == NormalizeDate(p.dob)
           match == {k \in confirmed :
                       /\ Lower(ledger[k].patient_first_name) = Lower(p.first_name)
                       /\ Lower(ledger[k].patient_last_name) = Lower(p.last_name)
                       /\ ledger[k].patient_dob = dob_normalized}
       IN IF match # {}
          THEN {k \in match : \A j \in match : ledger[j].created_at >= ledger[k].created_at}
          ELSE {0}

\* find_appointment_by_patient: the ledger positions it may return (none: {0});
\* rows of equal created_at are in no specified order after the sort
find_appointment_by_patient(ledger, p, afail) ==
  IF afail \/ ledger = <<>> THEN {0}
  ELSE LET confirmed == {k \in 1..Len(ledger) : ledger[k].status = "Confirmed"}
           dob_normalized == NormalizeDate(p.dob)
           match == {k \in confirmed :
                       /\ Lower(ledger[k].patient_first_name) = Lower(p.first_name)
                       /\ Lower(ledger[k].patient_last_name) = Lower(p.last_name)
                       /\ ledger[k].patient_dob = dob_normalized}
       IN IF match # {}
          THEN {k \in match : \A j \in match : ledger[j].created_at <= ledger[k].created_at}
          ELSE {0}

CancellationReason == "Patient requested cancellation via AI assistant"

\* cancel_appointment without its call of _update_schedule_availability
cancel_appointment_keeps_slot(st, appointment_id, reason, now, f) ==
  LET mask == {k \in 1..Len(st.ledger) : st.ledger[k].appointment_id = appointment_id}
  IN [ok |-> mask # {},
      ledger |-> [k \in 1..Len(st.ledger) |->
                    IF k \in mask
                    THEN [st.ledger[k] EXCEPT !.status = "Cancelled",
                                              !.cancellation_reason = reason,
                                              !.cancelled_at = now]
                    ELSE st.ledger[k]],
      schedule |-> st.schedule,
      patients |-> st.patients]

\* a cancel_appointment that stamps every record of the ledger
cancel_appointment_stamps_all(st, appointment_id, reason, now, f) ==
  LET mask == {k \in 1..Len(st.ledger) : st.ledger[k].appointment_id = appointment_id}
  IN [ok |-> mask # {},
      ledger |-> [k \in 1..Len(st.ledger) |->
                    [st.ledger[k] EXCEPT !.status = "Cancelled",
                                         !.cancellation_reason = reason,
                                         !.cancelled_at = now]],
      schedule |-> st.schedule,
      patients |-> st.patients]

\* cancel_appointment: <<returned flag, ledger, schedule, patients>> after it
cancel_appointment(st, appointment_id, reason, now, f) ==
  LET mask == {k \in 1..Len(st.ledger) : st.ledger[k].appointment_id = appointment_id}
      unchanged == [ok |-> FALSE, ledger |-> st.ledger, schedule |-> st.schedule,
                    patients |-> st.patients]
  IN IF f.afail \/ st.ledger = <<>> \/ mask = {} THEN unchanged
     ELSE LET appointment == st.ledger[CHOOSE k \in mask : \A j \in mask : k <= j]
              was_new_patient == appointment.is_returning_patient = "False"
              ledger1 == [k \in 1..Len(st.ledger) |->
                            IF k \in mask
                            THEN [st.ledger[k] EXCEPT
                                    !.status = "Cancelled",
                                    !.cancellation_reason =
                                       IF reason # "" THEN reason ELSE @,
                                    !.cancelled_at = now]
                            ELSE st.ledger[k]]
              schedule1 == _update_schedule_availability(
                             st.schedule, appointment.doctor_name,
                             appointment.appointment_date, appointment.appointment_time,
                             TRUE, f.sfail)
              patients1 == IF was_new_patient /\ ~f.pfail
                           THEN SelectSeq2(st.patients,
                                  {r \in Range(st.patients) :
                                     ~SamePatient(r, appointment.patient_first_name,
                                                  appointment.patient_last_name,
                                                  appointment.patient_dob)})
                           ELSE st.patients
          IN [ok |-> TRUE, ledger |-> ledger1, schedule |-> schedule1,
              patients |-> patients1]

\* send_patient_intake_form: delivered or not
SendResults == {TRUE, FALSE}

\* ------------------------------------------------------------------------
\* ConversationState (SchedulingState) and the environment of one step
\* ------------------------------------------------------------------------
EmptyPatient ==
  [first_name |-> "", last_name |-> "", dob |-> "", location |-> "", email |-> "",
   is_returning |-> "None"]
EmptyAppointment == [duration |-> 0, doctor_name |-> "", date |-> 0, time |-> ""]
EmptyInsurance == [carrier |-> "", member_id |-> "", group_number |-> ""]

\* the state of a thread the checkpointer has never seen: every key absent
FreshState ==
  [msgs |-> 0, current_stage |-> "", intent |-> "",
   patient_info |-> EmptyPatient, appointment_info |-> EmptyAppointment,
   insurance_info |-> EmptyInsurance, available_slots |-> <<>>,
   appointment_id |-> NoId, last_ai |-> <<"", 0>>]

\* what the language model may answer to the name prompt (<<"", "">>: no
\* usable name, or the call raised) and to the insurance prompt ("fail": the
\* call raised or returned no dict)
NameResults == {<<"", "">>, <<"Lisa", "">>, <<"Lisa", "Brown">>}
InsFail == [carrier |-> "fail", member_id |-> "", group_number |-> ""]
InsResults ==
  { InsFail, EmptyInsurance,
    [carrier |-> "Aetna", member_id |-> "", group_number |-> ""],
    [carrier |-> "", member_id |-> "123456789", group_number |-> "987654"] }

\* One step's environment: which store files fail, what the language model
\* answers, whether the intake form is delivered, whether a dict mutated in
\* place but not returned by the handler is seen by the next step (keep),
\* which of several equally recent appointments the sort puts first (pick),
\* and whether the step raises outside every handler-level try (crash).
NoFault == [pfail |-> FALSE, afail |-> FALSE, sfail |-> FALSE]
DefaultEnv ==
  [f |-> NoFault, names |-> <<"", "">>, ins |-> EmptyInsurance, sent |-> TRUE,
   keep |-> TRUE, pick |-> "first", crash |-> FALSE]

Filled(v) == v # ""

Min(a, b) == IF a < b THEN a ELSE b

\* add_messages: k more messages in a history of n
AddMessages(n, k) == Min(n + k, HistCap)

\* the result of a handler: the session after it, the stores after it
Result(ss, st) == [ss |-> ss, st |-> st]

\* ------------------------------------------------------------------------
\* router and the stage handlers (agent.py)
\* ------------------------------------------------------------------------
\* a router that follows the stored stage also under intent cancel
router_stage_first(ss) ==
  IF ss.msgs <= 1 THEN "greeting"
  ELSE IF ss.intent = "schedule"
       THEN (IF ss.current_stage = "" THEN "patient_lookup" ELSE ss.current_stage)
  ELSE (IF ss.current_stage = "" THEN "greeting" ELSE ss.current_stage)

router(ss) ==
  IF ss.msgs <= 1 THEN "greeting"
  ELSE IF ss.intent = "cancel" THEN "cancellation"
  ELSE IF ss.intent = "schedule"
       THEN (IF ss.current_stage = "" THEN "patient_lookup" ELSE ss.current_stage)
  ELSE (IF ss.current_stage = "" THEN "greeting" ELSE ss.current_stage)

\* a greeting that looks for keywords on the first turn too
_greeting_node_keywords_first(ss, m, st) ==
  IF HasCancelKeyword(m)
  THEN Result([ss EXCEPT !.last_ai = <<"cancel_ack", 0>>,
                         !.current_stage = "cancellation", !.intent = "cancel"], st)
  ELSE IF HasScheduleKeyword(m)
  THEN Result([ss EXCEPT !.last_ai = <<"schedule_ack", 0>>,
                         !.current_stage = "patient_lookup", !.intent = "schedule"], st)
  ELSE IF ss.msgs <= 1
  THEN Result([ss EXCEPT !.last_ai = <<"welcome", 0>>, !.current_stage = "greeting"], st)
  ELSE Result([ss EXCEPT !.last_ai = <<"clarify", 0>>, !.current_stage = "greeting"], st)

\* a greeting that advances the stage without storing the intent
_greeting_node_drops_intent(ss, m, st) ==
  IF ss.msgs <= 1
  THEN Result([ss EXCEPT !.last_ai = <<"welcome", 0>>, !.current_stage = "greeting"], st)
  ELSE IF HasCancelKeyword(m)
  THEN Result([ss EXCEPT !.last_ai = <<"cancel_ack", 0>>,
                         !.current_stage = "cancellation", !.intent = "cancel"], st)
  ELSE IF HasScheduleKeyword(m)
  THEN Result([ss EXCEPT !.last_ai = <<"schedule_ack", 0>>,
                         !.current_stage = "patient_lookup"], st)
  ELSE Result([ss EXCEPT !.last_ai = <<"clarify", 0>>, !.current_stage = "greeting"], st)

\* a greeting that tests the schedule keywords before the cancel keywords
_greeting_node_schedule_first(ss, m, st) ==
  IF ss.msgs <= 1
  THEN Result([ss EXCEPT !.last_ai = <<"welcome", 0>>, !.current_stage = "greeting"], st)
  ELSE IF HasScheduleKeyword(m)
  THEN Result([ss EXCEPT !.last_ai = <<"schedule_ack", 0>>,
                         !.current_stage = "patient_lookup", !.intent = "schedule"], st)
  ELSE IF HasCancelKeyword(m)
  THEN Result([ss EXCEPT !.last_ai = <<"cancel_ack", 0>>,
                         !.current_stage = "cancellation", !.intent = "cancel"], st)
  ELSE Result([ss EXCEPT !.last_ai = <<"clarify", 0>>, !.current_stage = "greeting"], st)

_greeting_node(ss, m, st) ==
  IF ss.msgs <= 1
  THEN Result([ss EXCEPT !.last_ai = <<"welcome", 0>>, !.current_stage = "greeting"], st)
  ELSE IF HasCancelKeyword(m)
  THEN Result([ss EXCEPT !.last_ai = <<"cancel_ack", 0>>,
                         !.current_stage = "cancellation", !.intent = "cancel"], st)
  ELSE IF HasScheduleKeyword(m)
  THEN Result([ss EXCEPT !.last_ai = <<"schedule_ack", 0>>,
                         !.current_stage = "patient_lookup", !.intent = "schedule"], st)
  ELSE Result([ss EXCEPT !.last_ai = <<"clarify", 0>>, !.current_stage = "greeting"], st)

\* a list of required fields without the address and the email
PatientRequired_identity_only == <<"first_name", "last_name", "dob">>

PatientRequired == <<"first_name", "last_name", "dob", "location", "email">>
CancelRequired == <<"first_name", "last_name", "dob">>

\* [field for field in required if not info.get(field)]
MissingFields(info, required) ==
  SelectSeq(required, LAMBDA fld : ~Filled(info[fld]))

\* the regular expression of the email step, else the stripped input
ExtractEmail(m) == m

\* the first_name step of _patient_lookup_node
ExtractFirstName(info, m, names) ==
  LET simple == SimpleNameExtraction(m)
  IN IF simple[1] # ""
     THEN [info EXCEPT !.first_name = simple[1],
                       !.last_name = IF simple[2] # "" THEN simple[2] ELSE @]
     ELSE IF m \notin NonNameResponses
          THEN (IF names[1] # ""
                THEN [info EXCEPT !.first_name = names[1],
                                  !.last_name = IF names[2] # "" THEN names[2] ELSE @]
                ELSE [info EXCEPT !.first_name = m])
          ELSE info

_patient_lookup_node(ss, m, st, e) ==
  LET info0 == ss.patient_info
      missing0 == MissingFields(info0, PatientRequired)
      info1 ==
        IF NonEmpty(m) /\ missing0 # <<>>
        THEN (CASE missing0[1] = "first_name" -> ExtractFirstName(info0, m, e.names)
                [] missing0[1] = "last_name" -> [info0 EXCEPT !.last_name = m]
                [] missing0[1] = "dob" -> [info0 EXCEPT !.dob = NormalizeDate(m)]
                [] missing0[1] = "location" -> [info0 EXCEPT !.location = m]
                [] missing0[1] = "email" -> [info0 EXCEPT !.email = ExtractEmail(m)])
        ELSE info0
      missing1 == MissingFields(info1, PatientRequired)
  IN IF missing1 # <<>>
     THEN Result([ss EXCEPT !.last_ai = <<"ask_" \o missing1[1], 0>>,
                            !.current_stage = "patient_lookup",
                            !.patient_info = info1], st)
     ELSE LET is_returning == lookup_patient(st.patients, info1.first_name,
                                             info1.last_name, info1.dob, e.f.pfail)
          IN Result([ss EXCEPT
                       !.last_ai = <<IF is_returning THEN "found_returning" ELSE "found_new", 0>>,
                       !.current_stage = "smart_scheduling",
                       !.patient_info = [info1 EXCEPT !.is_returning =
                                           IF is_returning THEN "True" ELSE "False"]], st)

\* a duration that ignores the returning flag
AppointmentDuration_new(patient_info) == NewDuration

\* 30 if patient_info.get("is_returning") else 60
AppointmentDuration(patient_info) ==
  IF patient_info.is_returning = "True" THEN ReturningDuration ELSE NewDuration

_smart_scheduling_node(ss, m, st) ==
  LET info1 == [ss.appointment_info EXCEPT !.duration = AppointmentDuration(ss.patient_info)]
      doctor == DoctorInMessage(m)
  IN IF doctor # ""
     THEN Result([ss EXCEPT !.last_ai = <<"doctor_chosen", info1.duration>>,
                            !.current_stage = "calendar_integration",
                            !.appointment_info = [info1 EXCEPT !.doctor_name = doctor]], st)
     ELSE Result([ss EXCEPT !.last_ai = <<"select_doctor", 0>>,
                            !.current_stage = "smart_scheduling",
                            !.appointment_info = info1], st)

\* 0 <= slot_number < len(available_slots)
SlotInRange(slot_number, available_slots) ==
  0 <= slot_number /\ slot_number < Len(available_slots)

\* an out-of-range reply that also drops the offered list
InvalidSlotNumber_clears(ss, st) ==
  Result([ss EXCEPT !.last_ai = <<"valid_range", Len(ss.available_slots)>>,
                    !.current_stage = "calendar_integration",
                    !.available_slots = <<>>], st)

\* the reply to a number that names no offered slot
InvalidSlotNumber(ss, st) ==
  Result([ss EXCEPT !.last_ai = <<"valid_range", Len(ss.available_slots)>>,
                    !.current_stage = "calendar_integration"], st)

\* a slot choice that always takes the first offered slot
_calendar_integration_node_first_slot(ss, m, st, now, e) ==
  IF IsInt(m)
  THEN LET slot_number == ParseInt(m) - 1
       IN IF SlotInRange(slot_number, ss.available_slots)
          THEN LET selected_slot == ss.available_slots[1]
               IN Result([ss EXCEPT
                            !.last_ai = <<"slot_chosen", slot_number + 1>>,
                            !.current_stage = "insurance_collection",
                            !.appointment_info =
                               [@ EXCEPT !.doctor_name = selected_slot.doctor_name,
                                         !.date = selected_slot.date,
                                         !.time = selected_slot.time]], st)
          ELSE InvalidSlotNumber(ss, st)
  ELSE LET available_slots == get_available_slots(
                                st.schedule, ss.appointment_info.doctor_name, now, e.f.sfail)
       IN IF available_slots # <<>>
          THEN Result([ss EXCEPT !.last_ai = <<"offer", Len(available_slots)>>,
                                 !.current_stage = "calendar_integration",
                                 !.available_slots = available_slots], st)
          ELSE Result([ss EXCEPT !.last_ai = <<"no_slots", 0>>,
                                 !.current_stage = "smart_scheduling",
                                 !.available_slots = available_slots,
                                 !.appointment_info = [@ EXCEPT !.doctor_name = ""]], st)

\* a query that finds no slot and keeps the doctor
_calendar_integration_node_keeps_doctor(ss, m, st, now, e) ==
  IF IsInt(m)
  THEN LET slot_number == ParseInt(m) - 1
       IN IF SlotInRange(slot_number, ss.available_slots)
          THEN LET selected_slot == ss.available_slots[slot_number + 1]
               IN Result([ss EXCEPT
                            !.last_ai = <<"slot_chosen", slot_number + 1>>,
                            !.current_stage = "insurance_collection",
                            !.appointment_info =
                               [@ EXCEPT !.doctor_name = selected_slot.doctor_name,
                                         !.date = selected_slot.date,
                                         !.time = selected_slot.time]], st)
          ELSE InvalidSlotNumber(ss, st)
  ELSE LET available_slots == get_available_slots(
                                st.schedule, ss.appointment_info.doctor_name, now, e.f.sfail)
       IN IF available_slots # <<>>
          THEN Result([ss EXCEPT !.last_ai = <<"offer", Len(available_slots)>>,
                                 !.current_stage = "calendar_integration",
                                 !.available_slots = available_slots], st)
          ELSE Result([ss EXCEPT !.last_ai = <<"no_slots", 0>>,
                                 !.current_stage = "smart_scheduling",
                                 !.available_slots = available_slots], st)

_calendar_integration_node(ss, m, st, now, e) ==
  IF IsInt(m)
  THEN LET slot_number == ParseInt(m) - 1
       IN IF SlotInRange(slot_number, ss.available_slots)
          THEN LET selected_slot == ss.available_slots[slot_number + 1]
               IN Result([ss EXCEPT
                            !.last_ai = <<"slot_chosen", slot_number + 1>>,
                            !.current_stage = "insurance_collection",
                            !.appointment_info =
                               [@ EXCEPT !.doctor_name = selected_slot.doctor_name,
                                         !.date = selected_slot.date,
                                         !.time = selected_slot.time]], st)
          ELSE InvalidSlotNumber(ss, st)
  ELSE LET available_slots == get_available_slots(
                                st.schedule, ss.appointment_info.doctor_name, now, e.f.sfail)
       IN IF available_slots # <<>>
          THEN Result([ss EXCEPT !.last_ai = <<"offer", Len(available_slots)>>,
                                 !.current_stage = "calendar_integration",
                                 !.available_slots = available_slots], st)
          ELSE Result([ss EXCEPT !.last_ai = <<"no_slots", 0>>,
                                 !.current_stage = "smart_scheduling",
                                 !.available_slots = available_slots,
                                 !.appointment_info = [@ EXCEPT !.doctor_name = ""]], st)

SelfPay == [carrier |-> "Self-Pay", member_id |-> "N/A", group_number |-> "N/A"]

\* a merge that empties the bag when the extraction fails
MergeInsurance_fail_clears(info, extracted) ==
  IF extracted = InsFail THEN [k \in DOMAIN info |-> ""]
  ELSE [k \in DOMAIN info |-> IF extracted[k] # "" THEN extracted[k] ELSE info[k]]

\* a merge that takes every extracted value, empty or not
MergeInsurance_takes_all(info, extracted) ==
  IF extracted = InsFail THEN info
  ELSE [k \in DOMAIN info |-> extracted[k]]

\* for key, value in extracted.items(): if value and value.strip(): ...
MergeInsurance(info, extracted) ==
  IF extracted = InsFail THEN info
  ELSE [k \in DOMAIN info |-> IF extracted[k] # "" THEN extracted[k] ELSE info[k]]

InsuranceRequired == <<"carrier", "member_id", "group_number">>

_insurance_collection_node(ss, m, st, e) ==
  IF HasSelfPayKeyword(m)
  THEN Result([ss EXCEPT !.last_ai = <<"self_pay", 0>>,
                         !.current_stage = "appointment_confirmation",
                         !.insurance_info = SelfPay], st)
  ELSE LET info1 == MergeInsurance(ss.insurance_info, e.ins)
           missing == MissingFields(info1, InsuranceRequired)
       IN IF missing = <<>>
          THEN Result([ss EXCEPT !.last_ai = <<"insurance_complete", 0>>,
                                 !.current_stage = "appointment_confirmation",
                                 !.insurance_info = info1], st)
          ELSE Result([ss EXCEPT
                         !.last_ai = <<IF info1 = EmptyInsurance THEN "ask_insurance"
                                       ELSE "ask_" \o missing[1], 0>>,
                         !.current_stage = "insurance_collection",
                         !.insurance_info = info1], st)

\* a commit that leaves the thread at appointment_confirmation
_appointment_confirmation_node_stays(ss, m, st, now, e) ==
  LET saved == save_appointment(st, ss.patient_info, ss.appointment_info,
                                ss.insurance_info, now, e.f)
  IN Result([ss EXCEPT !.last_ai = <<"appointment_confirmed", saved.id>>,
                       !.current_stage = "appointment_confirmation",
                       !.appointment_id = saved.id],
            [patients |-> saved.patients, ledger |-> saved.ledger,
             schedule |-> saved.schedule])

_appointment_confirmation_node(ss, m, st, now, e) ==
  LET saved == save_appointment(st, ss.patient_info, ss.appointment_info,
                                ss.insurance_info, now, e.f)
  IN Result([ss EXCEPT !.last_ai = <<"appointment_confirmed", saved.id>>,
                       !.current_stage = "form_distribution",
                       !.appointment_id = saved.id],
            [patients |-> saved.patients, ledger |-> saved.ledger,
             schedule |-> saved.schedule])

\* a form step that waits in its stage when the delivery fails
_form_distribution_node_waits(ss, m, st, e) ==
  LET form_response ==
        IF ss.patient_info.is_returning = "False"
        THEN (IF Filled(ss.patient_info.email)
              THEN (IF e.sent THEN "forms_sent" ELSE "forms_delivery_issue")
              ELSE "forms_at_clinic")
        ELSE "no_forms_needed"
  IN Result([ss EXCEPT !.last_ai = <<form_response, 0>>,
                       !.current_stage = IF form_response = "forms_delivery_issue"
                                         THEN "form_distribution" ELSE "completed"], st)

_form_distribution_node(ss, m, st, e) ==
  LET form_response ==
        IF ss.patient_info.is_returning = "False"
        THEN (IF Filled(ss.patient_info.email)
              THEN (IF e.sent THEN "forms_sent" ELSE "forms_delivery_issue")
              ELSE "forms_at_clinic")
        ELSE "no_forms_needed"
  IN Result([ss EXCEPT !.last_ai = <<form_response, 0>>,
                       !.current_stage = "completed"], st)

\* a cancellation handler that takes both names from a full name
_cancellation_node_full_name(ss, m, st, now, e) ==
  LET info0 == ss.patient_info
      missing0 == MissingFields(info0, CancelRequired)
      info1 ==
        IF missing0 # <<>>
        THEN (CASE missing0[1] = "first_name" -> [info0 EXCEPT !.first_name = FirstToken(m),
                               !.last_name = IF LastToken(m) # FirstToken(m)
                                             THEN LastToken(m) ELSE @]
                [] missing0[1] = "last_name" -> [info0 EXCEPT !.last_name = LastToken(m)]
                [] missing0[1] = "dob" -> [info0 EXCEPT !.dob = NormalizeDate(m)])
        ELSE info0
      missing1 == MissingFields(info1, CancelRequired)
      \* the handler returns no patient_info once it looks the appointment up
      info2 == IF e.keep THEN info1 ELSE info0
  IN IF missing1 # <<>>
     THEN Result([ss EXCEPT !.last_ai = <<"ask_" \o missing1[1], 0>>,
                            !.current_stage = "cancellation",
                            !.patient_info = info1], st)
     ELSE LET found == find_appointment_by_patient(st.ledger, info1, e.f.afail)
              appointment_to_cancel ==
                IF e.pick = "first" THEN CHOOSE k \in found : \A j \in found : k <= j
                ELSE CHOOSE k \in found : \A j \in found : k >= j
          IN IF appointment_to_cancel = 0
             THEN Result([ss EXCEPT !.last_ai = <<"lookup_miss", 0>>,
                                    !.current_stage = "completed",
                                    !.patient_info = info2], st)
             ELSE LET appointment_id == st.ledger[appointment_to_cancel].appointment_id
                      c == cancel_appointment(st, appointment_id, CancellationReason, now, e.f)
                  IN Result([ss EXCEPT
                               !.last_ai = <<IF c.ok THEN "cancelled" ELSE "cancel_error",
                                             appointment_id>>,
                               !.current_stage = "completed",
                               !.patient_info = info2],
                            [patients |-> c.patients, ledger |-> c.ledger,
                             schedule |-> c.schedule])

_cancellation_node(ss, m, st, now, e) ==
  LET info0 == ss.patient_info
      missing0 == MissingFields(info0, CancelRequired)
      info1 ==
        IF missing0 # <<>>
        THEN (CASE missing0[1] = "first_name" -> [info0 EXCEPT !.first_name = FirstToken(m)]
                [] missing0[1] = "last_name" -> [info0 EXCEPT !.last_name = LastToken(m)]
                [] missing0[1] = "dob" -> [info0 EXCEPT !.dob = NormalizeDate(m)])
        ELSE info0
      missing1 == MissingFields(info1, CancelRequired)
      \* the handler returns no patient_info once it looks the appointment up
      info2 == IF e.keep THEN info1 ELSE info0
  IN IF missing1 # <<>>
     THEN Result([ss EXCEPT !.last_ai = <<"ask_" \o missing1[1], 0>>,
                            !.current_stage = "cancellation",
                            !.patient_info = info1], st)
     ELSE LET found == find_appointment_by_patient(st.ledger, info1, e.f.afail)
              appointment_to_cancel ==
                IF e.pick = "first" THEN CHOOSE k \in found : \A j \in found : k <= j
                ELSE CHOOSE k \in found : \A j \in found : k >= j
          IN IF appointment_to_cancel = 0
             THEN Result([ss EXCEPT !.last_ai = <<"lookup_miss", 0>>,
                                    !.current_stage = "completed",
                                    !.patient_info = info2], st)
             ELSE LET appointment_id == st.ledger[appointment_to_cancel].appointment_id
                      c == cancel_appointment(st, appointment_id, CancellationReason, now, e.f)
                  IN Result([ss EXCEPT
                               !.last_ai = <<IF c.ok THEN "cancelled" ELSE "cancel_error",
                                             appointment_id>>,
                               !.current_stage = "completed",
                               !.patient_info = info2],
                            [patients |-> c.patients, ledger |-> c.ledger,
                             schedule |-> c.schedule])

\* returns no message
\* an end handler that forgets the intent
_end_conversation_node_clears_intent(ss, m, st) ==
  Result([ss EXCEPT !.current_stage = "completed", !.intent = ""], st)

_end_conversation_node(ss, m, st) ==
  Result([ss EXCEPT !.current_stage = "completed"], st)

\* the conditional edges from START: the handler a routed name runs
RunNode(node, ss, m, st, now, e) ==
  CASE node = "greeting" -> _greeting_node(ss, m, st)
    [] node = "patient_lookup" -> _patient_lookup_node(ss, m, st, e)
    [] node = "smart_scheduling" -> _smart_scheduling_node(ss, m, st)
    [] node = "calendar_integration" -> _calendar_integration_node(ss, m, st, now, e)
    [] node = "insurance_collection" -> _insurance_collection_node(ss, m, st, e)
    [] node = "appointment_confirmation" -> _appointment_confirmation_node(ss, m, st, now, e)
    [] node = "form_distribution" -> _form_distribution_node(ss, m, st, e)
    [] node = "cancellation" -> _cancellation_node(ss, m, st, now, e)
    [] node = "completed" -> _end_conversation_node(ss, m, st)

Apology == <<"technical_difficulties", 0>>
HowCanIAssist == <<"how_can_i_assist", 0>>

\* "start conversation" is sent to the workflow as "Hello"
UserMessage(m) == IF m = "start conversation" THEN "Hello" ELSE m

\* the last AI message with content, else the fixed prompt
LatestAIMessage(ss) == IF ss.last_ai[1] # "" THEN ss.last_ai ELSE HowCanIAssist

\* a process_message without its except clause: a raise leaves no reply
ProcessReply_raises(ss, crash) == IF crash THEN <<"", 0>> ELSE LatestAIMessage(ss)

\* what process_message returns: the apology when the call raised
ProcessReply(ss, crash) == IF crash THEN Apology ELSE LatestAIMessage(ss)

\* an invoke that goes on to the commit when a handler has moved the stage
\* to appointment_confirmation
Invoke_chained(ss, m, st, now, e) ==
  LET ss1 == [ss EXCEPT !.msgs = AddMessages(@, 1)]
      node == router(ss1)
      r1 == RunNode(node, ss1, m, st, now, e)
      r == IF node # "appointment_confirmation"
              /\ r1.ss.current_stage = "appointment_confirmation"
           THEN RunNode("appointment_confirmation", r1.ss, m, r1.st, now, e)
           ELSE r1
  IN IF e.crash THEN Result(ss1, st)
     ELSE Result([r.ss EXCEPT !.msgs = AddMessages(@, IF node = "completed" THEN 0 ELSE 1)],
                 r.st)

\* workflow.invoke: the input message is added to the history, the routed
\* handler runs once, its update and its message are applied
Invoke(ss, m, st, now, e) ==
  LET ss1 == [ss EXCEPT !.msgs = AddMessages(@, 1)]
      node == router(ss1)
      r == RunNode(node, ss1, m, st, now, e)
  IN IF e.crash THEN Result(ss1, st)
     ELSE Result([r.ss EXCEPT !.msgs = AddMessages(@, IF node = "completed" THEN 0 ELSE 1)],
                 r.st)

\* a reset that leaves the appointment id in place
ResetValues_keeps_id(ss) ==
  [ss EXCEPT !.current_stage = "greeting", !.intent = "",
             !.patient_info = EmptyPatient, !.appointment_info = EmptyAppointment,
             !.insurance_info = EmptyInsurance, !.available_slots = <<>>]

\* the values reset_conversation passes to update_state; the messages key is
\* merged by add_messages, every other key is overwritten
ResetValues(ss) ==
  [ss EXCEPT !.msgs = AddMessages(@, 0),
             !.current_stage = "greeting", !.intent = "",
             !.patient_info = EmptyPatient, !.appointment_info = EmptyAppointment,
             !.insurance_info = EmptyInsurance, !.available_slots = <<>>,
             !.appointment_id = NoId]

\* ------------------------------------------------------------------------
\* The two conversations the testable properties walk through, and how far
\* a thread has followed one of them since it stood at a fresh greeting.
\* ------------------------------------------------------------------------
BookingScript ==
  << "book an appointment", "I am John Doe", "03/15/1985", "123 Main St",
     "john.doe@example.com", "Dr. Emily Chen", "1", "self-pay" >>
CancelScript == << "cancel", "Lisa Brown", "09/05/1995" >>
ScriptOf(name) == IF name = "booking" THEN BookingScript ELSE CancelScript
NoScript == <<"", 0>>

\* a conversation that has had its welcome and nothing else
AtFreshGreeting(ss) ==
  /\ ss.msgs >= 2
  /\ router([ss EXCEPT !.msgs = AddMessages(@, 1)]) = "greeting"
  /\ ss.intent = ""
  /\ ss.patient_info = EmptyPatient
  /\ ss.appointment_info = EmptyAppointment
  /\ ss.insurance_info = EmptyInsurance
  /\ ss.available_slots = <<>>
  /\ ss.appointment_id = NoId

\* the progress after the thread in state ss is sent m
Track(progress, ss, m) ==
  IF AtFreshGreeting(ss) /\ m = BookingScript[1] THEN <<"booking", 1>>
  ELSE IF AtFreshGreeting(ss) /\ m = CancelScript[1] THEN <<"cancel", 1>>
  ELSE IF /\ progress[1] # ""
          /\ progress[2] < Len(ScriptOf(progress[1]))
          /\ m = ScriptOf(progress[1])[progress[2] + 1]
       THEN <<progress[1], progress[2] + 1>>
  ELSE NoScript

\* ------------------------------------------------------------------------
\* The state machine
\* ------------------------------------------------------------------------
VARIABLES
  sess,       \* thread id -> ConversationState (the checkpointer)
  patients,   \* patients.csv
  schedule,   \* doctor_schedules.csv
  ledger,     \* appointments_report.csv
  now,        \* the clock
  faults,     \* store failures and raised steps so far
  out,        \* the last call: operation, thread, handler routed to, whether it
              \* raised, value returned
  script,     \* thread id -> the walk-through followed so far
  calls       \* call id -> a call of process_message that has not returned:
              \* its thread, message, the state and files it has read

vars == <<sess, patients, schedule, ledger, now, faults, out, script, calls>>

Stores == [patients |-> patients, ledger |-> ledger, schedule |-> schedule]

\* the calls that may overlap
Calls == {"c1", "c2"}

\* a call that has not been issued
IdleCall ==
  [phase |-> "idle", sid |-> "", m |-> "", snap |-> FreshState,
   st0 |-> [patients |-> BasicPatients, ledger |-> <<>>, schedule |-> [s \in Slots |-> TRUE]],
   led |-> <<>>, sch |-> [s \in Slots |-> TRUE]]

Init ==
  /\ calls = [c \in Calls |-> IdleCall]
  /\ sess = [s \in Sessions |-> FreshState]
  /\ patients = BasicPatients
  /\ schedule = [s \in Slots |-> TRUE]
  /\ ledger = <<>>
  /\ now = 0
  /\ faults = 0
  /\ out = [op |-> "init", sid |-> "", node |-> "", raised |-> FALSE, reply |-> <<"", 0>>]
  /\ script = [s \in Sessions |-> NoScript]

\* at most one store file fails during a step
OneFault ==
  { NoFault, [NoFault EXCEPT !.pfail = TRUE], [NoFault EXCEPT !.afail = TRUE],
    [NoFault EXCEPT !.sfail = TRUE] }

\* the environments a step of the given handler can meet (only the parts
\* the step can read vary); with faulty, a store file may fail or the step
\* may raise
Envs(node, ss, faulty) ==
  LET F == IF faulty THEN OneFault ELSE {NoFault}
      crashed == IF faulty THEN {[DefaultEnv EXCEPT !.crash = TRUE]} ELSE {}
      lookup_missing == MissingFields(ss.patient_info, PatientRequired)
      cancel_missing == MissingFields(ss.patient_info, CancelRequired)
      confirmed == {k \in 1..Len(ledger) : ledger[k].status = "Confirmed"}
  IN crashed \cup
     CASE node = "patient_lookup" ->
            { [DefaultEnv EXCEPT !.names = n, !.f = f] :
                n \in (IF ~Filled(ss.patient_info.first_name) THEN NameResults ELSE {<<"", "">>}),
                f \in (IF Len(lookup_missing) <= 2 THEN {f \in F : ~f.afail /\ ~f.sfail}
                       ELSE {NoFault}) }
       [] node = "calendar_integration" ->
            { [DefaultEnv EXCEPT !.f = f] : f \in {f \in F : ~f.afail /\ ~f.pfail} }
       [] node = "insurance_collection" ->
            { [DefaultEnv EXCEPT !.ins = i] : i \in InsResults }
       [] node = "appointment_confirmation" ->
            { [DefaultEnv EXCEPT !.f = f] : f \in F }
       [] node = "form_distribution" ->
            { [DefaultEnv EXCEPT !.sent = b] :
                b \in (IF ss.patient_info.is_returning = "False" THEN SendResults ELSE {TRUE}) }
       [] node = "cancellation" ->
            { [DefaultEnv EXCEPT !.f = f, !.keep = k, !.pick = p] :
                f \in (IF Len(cancel_missing) <= 1 THEN F ELSE {NoFault}),
                k \in (IF Len(cancel_missing) = 1 THEN BOOLEAN ELSE {TRUE}),
                p \in (IF Cardinality(confirmed) >= 2 THEN {"first", "last"} ELSE {"first"}) }
       [] OTHER -> { DefaultEnv }

\* process_message(user_message, thread_id)
process_message(sid, m, e) ==
  LET node == router([sess[sid] EXCEPT !.msgs = AddMessages(@, 1)])
      r == Invoke(sess[sid], UserMessage(m), Stores, now, e)
  IN /\ sess' = [sess EXCEPT ![sid] = r.ss]
     /\ patients' = r.st.patients
     /\ schedule' = r.st.schedule
     /\ ledger' = r.st.ledger
     /\ out' = [op |-> "process_message", sid |-> sid, node |-> node, raised |-> e.crash,
                reply |-> ProcessReply(r.ss, e.crash)]
     /\ script' = [script EXCEPT ![sid] = Track(@, sess[sid], m)]
     /\ faults' = IF e.crash \/ e.f # NoFault THEN faults + 1 ELSE faults
     /\ UNCHANGED <<now, calls>>

\* a reset that reaches every thread of the checkpointer
reset_conversation_every_thread(sid) ==
  /\ sess' = [s \in Sessions |-> ResetValues(sess[s])]
  /\ out' = [op |-> "reset_conversation", sid |-> sid, node |-> "", raised |-> FALSE,
             reply |-> <<"", 0>>]
  /\ script' = [script EXCEPT ![sid] = NoScript]
  /\ UNCHANGED <<patients, schedule, ledger, now, faults, calls>>

\* reset_conversation(thread_id)
reset_conversation(sid) ==
  /\ sess' = [sess EXCEPT ![sid] = ResetValues(sess[sid])]
  /\ out' = [op |-> "reset_conversation", sid |-> sid, node |-> "", raised |-> FALSE,
             reply |-> <<"", 0>>]
  /\ script' = [script EXCEPT ![sid] = NoScript]
  /\ UNCHANGED <<patients, schedule, ledger, now, faults, calls>>

\* time passes
Tick ==
  /\ now < MaxNow
  /\ now' = now + 1
  /\ out' = [op |-> "tick", sid |-> "", node |-> "", raised |-> FALSE, reply |-> <<"", 0>>]
  /\ UNCHANGED <<sess, patients, schedule, ledger, faults, script, calls>>

\* Who the user says they are decides the date of birth they give.
DobOf(first_name) ==
  CASE first_name \in {"John", "I"} -> "03/15/1985"
    [] first_name = "Jane" -> "07/22/1990"
    [] OTHER -> "09/05/1995"

\* The users of a specification: what they type when asked for their name
\* (booking, cancellation), for a doctor and for their insurance.
CoreUsers ==
  [first |-> {"I am John Doe", "Lisa", "okay"},
   cfirst |-> {"John Doe", "Lisa Brown"},
   clast |-> {"Doe", "Brown", "09/05/1995"},
   doctor |-> {"Dr. Emily Chen", "Dr. David Rodriguez", "okay"},
   insurance |-> {"self-pay"}]
FaultUsers ==
  [first |-> {"I am John Doe", "Lisa"},
   cfirst |-> {"Lisa Brown"},
   clast |-> {"Brown"},
   doctor |-> {"Dr. Emily Chen", "okay"},
   insurance |-> {"Aetna"}]
NarrowUsers ==
  [first |-> {"Jane Smith", "Lisa Brown"},
   cfirst |-> {"Jane Smith", "Lisa Brown"},
   clast |-> {"Smith", "Brown"},
   doctor |-> {"Dr. Emily Chen", "okay"},
   insurance |-> {"self-pay"}]

\* one returning patient with one doctor, paying directly
SingleUser ==
  [first |-> {"I am John Doe"},
   cfirst |-> {"John Doe"},
   clast |-> {"Doe"},
   doctor |-> {"Dr. Emily Chen"},
   insurance |-> {"self-pay"}]

\* one returning patient who names an insurer or pays directly
InsuredUser ==
  [first |-> {"I am John Doe"},
   cfirst |-> {"John Doe"},
   clast |-> {"Doe"},
   doctor |-> {"Dr. Emily Chen"},
   insurance |-> {"Aetna", "self-pay"}]

\* The messages a user types, given what the session last asked: an answer
\* to the question, or one of a few messages beside it.
UserMsgs(ss, U) ==
  LET node == router([ss EXCEPT !.msgs = AddMessages(@, 1)])
      lookup_missing == MissingFields(ss.patient_info, PatientRequired)
      cancel_missing == MissingFields(ss.patient_info, CancelRequired)
  IN CASE node = "greeting" ->
            IF ss.msgs = 0 THEN {"start conversation", "cancel my appointment"}
            ELSE {"book an appointment", "cancel", "cancel my appointment", "okay",
                  "start conversation"}
       [] node = "patient_lookup" ->
            IF lookup_missing = <<>> THEN {"okay"}
            ELSE (CASE lookup_missing[1] = "first_name" -> U.first
                    [] lookup_missing[1] = "last_name" -> {"Brown"}
                    [] lookup_missing[1] = "dob" -> {DobOf(ss.patient_info.first_name)}
                    [] lookup_missing[1] = "location" -> {"123 Main St"}
                    [] lookup_missing[1] = "email" -> {"john.doe@example.com"})
       [] node = "smart_scheduling" -> U.doctor
       [] node = "calendar_integration" -> {"0", "1", "2", "9", "okay", "self-pay"}
       [] node = "insurance_collection" -> U.insurance
       [] node = "cancellation" ->
            IF cancel_missing = <<>> THEN {"okay"}
            ELSE (CASE cancel_missing[1] = "first_name" -> U.cfirst
                    [] cancel_missing[1] = "last_name" -> U.clast
                    [] cancel_missing[1] = "dob" -> {DobOf(ss.patient_info.first_name)})
       [] OTHER -> {"okay"}

\* one call of process_message by a user of U on a thread of S; a booking
\* is taken while the ledger holds fewer than cap records and the directory
\* fewer than MaxPatients; with faulty, a step may fail while fewer than
\* MaxFaults have
Step(S, U, faulty, cap) ==
  \E sid \in S :
    \E m \in UserMsgs(sess[sid], U) :
      \E e \in Envs(router([sess[sid] EXCEPT !.msgs = AddMessages(@, 1)]), sess[sid],
                    faulty /\ faults < MaxFaults) :
        /\ router([sess[sid] EXCEPT !.msgs = AddMessages(@, 1)]) = "appointment_confirmation"
             => Len(ledger) < cap /\ Len(patients) < MaxPatients
        /\ process_message(sid, m, e)

\* the application's button: it exists once the thread has had its first turn
Reset(S) == \E sid \in S : sess[sid].msgs >= 1 /\ reset_conversation(sid)

\* one thread, no failures
Next == Step({"s1"}, CoreUsers, FALSE, MaxLedger) \/ Reset({"s1"})

Spec == Init /\ [][Next]_vars

\* one thread; store files may fail and steps may raise
NextFaults == Step({"s1"}, FaultUsers, TRUE, MaxLedgerFaults) \/ Reset({"s1"})

SpecFaults == Init /\ [][NextFaults]_vars

\* two threads whose steps interleave
NextTwo == Step(Sessions, NarrowUsers, FALSE, MaxLedger) \/ Tick

SpecTwo == Init /\ [][NextTwo]_vars

\* one thread of one patient while time passes
NextClock == Step({"s1"}, SingleUser, FALSE, MaxLedger) \/ Reset({"s1"}) \/ Tick

SpecClock == Init /\ [][NextClock]_vars

\* the ids a caller of the tools can pass: those of the ledger and one more
AppointmentIds == 1..(MaxLedger + 1)

\* SchedulingTools.cancel_appointment(appointment_id, reason) called on the
\* stores as they are
cancel_appointment_call(appointment_id) ==
  LET c == cancel_appointment(Stores, appointment_id, CancellationReason, now, NoFault)
  IN /\ ledger' = c.ledger
     /\ schedule' = c.schedule
     /\ patients' = c.patients
     /\ out' = [op |-> "cancel_appointment", sid |-> "", node |-> "", raised |-> FALSE,
                reply |-> <<IF c.ok THEN "True" ELSE "False", appointment_id>>]
     /\ UNCHANGED <<sess, now, faults, script, calls>>

\* one thread of one patient, and a caller of cancel_appointment
NextTools ==
  \/ Step({"s1"}, SingleUser, FALSE, MaxLedger)
  \/ Reset({"s1"})
  \/ \E appointment_id \in AppointmentIds : cancel_appointment_call(appointment_id)

SpecTools == Init /\ [][NextTools]_vars

\* two threads of one patient, each with its reset button
NextPair == Step(Sessions, SingleUser, FALSE, MaxLedgerPair) \/ Reset(Sessions)

SpecPair == Init /\ [][NextPair]_vars

\* one thread of a patient asked for the insurance
NextInsured == Step({"s1"}, InsuredUser, FALSE, MaxLedgerPair) \/ Reset({"s1"})

SpecInsured == Init /\ [][NextInsured]_vars

\* a schedule file of Dr. Chen with more days than one offer holds, each slot
\* available or not
ManySlots == {Slot(Chen, d, "09:00") : d \in 1..MaxDays} \cup {Slot(Rodriguez, 1, "09:00")}

InitSlots ==
  /\ calls = [c \in Calls |-> IdleCall]
  /\ sess = [s \in Sessions |-> FreshState]
  /\ patients = BasicPatients
  /\ schedule \in {f \in [ManySlots -> BOOLEAN] : f[Slot(Rodriguez, 1, "09:00")]}
  /\ ledger = <<>>
  /\ now = 0
  /\ faults = 0
  /\ out = [op |-> "init", sid |-> "", node |-> "", raised |-> FALSE, reply |-> <<"", 0>>]
  /\ script = [s \in Sessions |-> NoScript]

\* one thread of one patient over such a schedule while time passes
NextSlots == Step({"s1"}, SingleUser, FALSE, MaxLedgerPair) \/ Tick

SpecSlots == InitSlots /\ [][NextSlots]_vars

\* ------------------------------------------------------------------------
\* Calls of process_message that overlap in time. workflow.invoke loads the
\* thread's latest checkpoint when it starts and stores a new one when the
\* handler has run; save_appointment and _update_schedule_availability
\* each read a whole file and write it back. Nothing holds a lock.
\* ------------------------------------------------------------------------
\* the handler a call runs, decided from the checkpoint it loaded
CallNode(c) == router([calls[c].snap EXCEPT !.msgs = AddMessages(@, 1)])

\* the handler's result on the checkpoint and the files the call has read
CallResult(c) ==
  Invoke(calls[c].snap, UserMessage(calls[c].m),
         [patients |-> patients, ledger |-> calls[c].led, schedule |-> calls[c].sch],
         now, DefaultEnv)

CallOut(c, op) ==
  [op |-> op, sid |-> calls[c].sid, node |-> CallNode(c), raised |-> FALSE,
   reply |-> <<"", 0>>]

\* process_message is called: invoke loads the checkpoint of the thread
Begin(c, sid, m) ==
  /\ calls[c].phase = "idle"
  /\ calls' = [calls EXCEPT ![c] = [IdleCall EXCEPT !.phase = "running", !.sid = sid,
                                                    !.m = m, !.snap = sess[sid],
                                                    !.st0 = Stores]]
  /\ out' = [op |-> "begin", sid |-> sid, node |-> "", raised |-> FALSE,
             reply |-> <<"", 0>>]
  /\ UNCHANGED <<sess, patients, schedule, ledger, now, faults, script>>

\* save_appointment: df = pd.read_csv(appointments_file)
ReadLedger(c) ==
  /\ calls[c].phase = "running"
  /\ CallNode(c) = "appointment_confirmation"
  /\ calls' = [calls EXCEPT ![c].phase = "ledger_read", ![c].led = ledger]
  /\ out' = CallOut(c, "read_ledger")
  /\ UNCHANGED <<sess, patients, schedule, ledger, now, faults, script>>

\* save_appointment: the new patient is added, df with the new record is
\* written to appointments_file
WriteLedger(c) ==
  /\ calls[c].phase = "ledger_read"
  /\ calls' = [calls EXCEPT ![c].phase = "ledger_written"]
  /\ ledger' = CallResult(c).st.ledger
  /\ patients' = CallResult(c).st.patients
  /\ out' = CallOut(c, "write_ledger")
  /\ UNCHANGED <<sess, schedule, now, faults, script>>

\* _update_schedule_availability: df = pd.read_csv(schedule_file)
ReadSchedule(c) ==
  /\ calls[c].phase = "ledger_written"
  /\ calls' = [calls EXCEPT ![c].phase = "schedule_read", ![c].sch = schedule]
  /\ out' = CallOut(c, "read_schedule")
  /\ UNCHANGED <<sess, patients, schedule, ledger, now, faults, script>>

\* _update_schedule_availability: df with the slot flipped is written
WriteSchedule(c) ==
  /\ calls[c].phase = "schedule_read"
  /\ calls' = [calls EXCEPT ![c].phase = "schedule_written"]
  /\ schedule' = CallResult(c).st.schedule
  /\ out' = CallOut(c, "write_schedule")
  /\ UNCHANGED <<sess, patients, ledger, now, faults, script>>

\* invoke stores the checkpoint made from the one it loaded and the
\* handler's update, and process_message returns
Finish(c) ==
  LET commit == CallNode(c) = "appointment_confirmation"
      r == IF commit THEN CallResult(c)
           ELSE Invoke(calls[c].snap, UserMessage(calls[c].m), Stores, now, DefaultEnv)
  IN /\ calls[c].phase = (IF commit THEN "schedule_written" ELSE "running")
     /\ calls' = [calls EXCEPT ![c].phase = "done"]
     /\ sess' = [sess EXCEPT ![calls[c].sid] = r.ss]
     /\ patients' = (IF commit THEN patients ELSE r.st.patients)
     /\ schedule' = (IF commit THEN schedule ELSE r.st.schedule)
     /\ ledger' = (IF commit THEN ledger ELSE r.st.ledger)
     /\ out' = [op |-> "process_message", sid |-> calls[c].sid, node |-> CallNode(c),
                raised |-> FALSE, reply |-> ProcessReply(r.ss, FALSE)]
     /\ UNCHANGED <<now, faults, script>>

\* two threads take turns until a first call is issued; a second call is
\* issued before the first has returned
NextRace ==
  \/ (\A c \in Calls : calls[c].phase = "idle")
       /\ Step(Sessions, SingleUser, FALSE, MaxLedgerPair)
  \/ \E sid \in Sessions : \E m \in UserMsgs(sess[sid], SingleUser) :
       \/ Begin("c1", sid, m)
       \/ calls["c1"].phase \notin {"idle", "done"} /\ Begin("c2", sid, m)
  \/ \E c \in Calls :
       ReadLedger(c) \/ WriteLedger(c) \/ ReadSchedule(c) \/ WriteSchedule(c) \/ Finish(c)

SpecRace == Init /\ [][NextRace]_vars

\* ------------------------------------------------------------------------
\* Properties
\* ------------------------------------------------------------------------
SlotOf(rec) == Slot(rec.doctor_name, rec.appointment_date, rec.appointment_time)

ConfirmedAt(s) ==
  {k \in 1..Len(ledger) : ledger[k].status = "Confirmed" /\ SlotOf(ledger[k]) = s}

\* the step just taken was process_message on thread sid
Processed(sid) == out'.op = "process_message" /\ out'.sid = sid

\* C1: in every reachable state at most one Confirmed record of the ledger
\* references any one (doctor, date, time) slot, also when the steps of two
\* threads that were offered the same slot interleave.
C1_OneConfirmedPerSlot == \A s \in Slots : Cardinality(ConfirmedAt(s)) <= 1

\* C2: the commit of appointment_confirmation is all-or-nothing: after the
\* step either a Confirmed record was added and its slot is unavailable, or
\* no record was added and the slot's availability is what it was.
C2_CommitAllOrNothing ==
  [][\A sid \in Sessions :
       (Processed(sid) /\ out'.node = "appointment_confirmation") =>
         LET a == sess[sid].appointment_info
             s == Slot(a.doctor_name, a.date, a.time)
         IN \/ /\ Len(ledger') = Len(ledger) + 1
               /\ ledger'[Len(ledger')].status = "Confirmed"
               /\ SlotOf(ledger'[Len(ledger')]) = s
               /\ ~schedule'[s]
            \/ /\ ledger' = ledger
               /\ schedule'[s] = schedule[s]]_vars

\* C3: after "book an appointment" and the seven messages of the booking
\* walk-through, with a future slot of Dr. Emily Chen available, the stage is
\* form_distribution or completed, the appointment id is a non-error id and
\* the insurance fields are the self-pay sentinel.
C3_BookingScriptCompletes ==
  \A sid \in Sessions :
    ( /\ script[sid] = <<"booking", Len(BookingScript)>>
      /\ \E s \in Slots : s.doctor_name = Chen /\ s.date > now /\ schedule[s] ) =>
      /\ sess[sid].current_stage \in {"form_distribution", "completed"}
      /\ sess[sid].appointment_id \notin {NoId, ErrorId}
      /\ sess[sid].insurance_info = SelfPay

\* C4: when the ledger has no Confirmed record of Lisa Brown, born
\* 1995-09-05, the third message of the cancellation walk-through leaves the
\* stage completed, is answered with the lookup-miss message and changes
\* none of the three stores.
C4_CancelScriptMisses ==
  [][\A sid \in Sessions :
       ( /\ script[sid] = <<"cancel", 2>>
         /\ script'[sid] = <<"cancel", 3>>
         /\ ~\E k \in 1..Len(ledger) :
               /\ ledger[k].status = "Confirmed"
               /\ ledger[k].patient_first_name = "Lisa"
               /\ ledger[k].patient_last_name = "Brown"
               /\ ledger[k].patient_dob = "1995-09-05" ) =>
         /\ sess'[sid].current_stage = "completed"
         /\ out'.reply = <<"lookup_miss", 0>>
         /\ UNCHANGED <<patients, schedule, ledger>>]_vars

\* C5: when a booked appointment is cancelled, its slot is available
\* afterwards, and if the patient was flagged new at the booking no row of
\* the directory carries that first name, last name and date of birth.
C5_BookThenCancel ==
  [][\A sid \in Sessions :
       (Processed(sid) /\ out'.reply[1] = "cancelled") =>
         \A k \in 1..Len(ledger) :
           (ledger[k].appointment_id = out'.reply[2]) =>
             /\ ledger[k].status = "Confirmed"
             /\ ledger'[k].status = "Cancelled"
             /\ schedule'[SlotOf(ledger[k])]
             /\ (ledger[k].is_returning_patient = "False") =>
                  ~\E j \in 1..Len(patients') :
                     SamePatient(patients'[j], ledger[k].patient_first_name,
                                 ledger[k].patient_last_name, ledger[k].patient_dob)]_vars

C5_Witness ==
  /\ out.op = "process_message" /\ out.reply[1] = "cancelled"
  /\ \E k \in 1..Len(ledger) :
       /\ ledger[k].appointment_id = out.reply[2]
       /\ ledger[k].status = "Cancelled"
       /\ ledger[k].is_returning_patient = "False"
       /\ schedule[SlotOf(ledger[k])]
       /\ ~\E j \in 1..Len(patients) :
             SamePatient(patients[j], ledger[k].patient_first_name,
                         ledger[k].patient_last_name, ledger[k].patient_dob)

\* C6: reset_conversation is idempotent: after it the stage is greeting, the
\* intent is unset, the three bags and the offered list are empty and the
\* appointment id is none, and a second reset in a row changes nothing.
C6_ResetIdempotent ==
  [][\A sid \in Sessions :
       (out'.op = "reset_conversation" /\ out'.sid = sid) =>
         /\ sess'[sid].current_stage = "greeting"
         /\ sess'[sid].intent = ""
         /\ sess'[sid].patient_info = EmptyPatient
         /\ sess'[sid].appointment_info = EmptyAppointment
         /\ sess'[sid].insurance_info = EmptyInsurance
         /\ sess'[sid].available_slots = <<>>
         /\ sess'[sid].appointment_id = NoId
         /\ ResetValues(sess'[sid]) = sess'[sid]
         /\ (out.op = "reset_conversation" /\ out.sid = sid) => sess'[sid] = sess[sid]]_vars

C6_Witness ==
  /\ out.op = "reset_conversation"
  /\ \E k \in 1..Len(ledger) : ledger[k].status = "Confirmed"
  /\ sess[out.sid].appointment_id = NoId
  /\ sess[out.sid].current_stage = "greeting"
  /\ sess[out.sid].patient_info = EmptyPatient

\* C7: a reset clears the message history: the process_message that follows
\* a reset of the same thread finds an empty history, is routed to greeting
\* and returns the welcome, whatever the message says.
C7_ResetStartsOver ==
  [][\A sid \in Sessions :
       (out.op = "reset_conversation" /\ out.sid = sid /\ Processed(sid)) =>
         /\ sess[sid].msgs = 0
         /\ out'.node = "greeting"
         /\ out'.reply = <<"welcome", 0>>]_vars

\* C8: process_message always returns a reply, whatever fails inside it, and
\* when the call raised the reply is the fixed apology.
C8_NeverPropagates ==
  out.op = "process_message" =>
    /\ out.reply[1] # ""
    /\ out.raised => out.reply = Apology

C8_Witness ==
  /\ out.op = "process_message"
  /\ out.raised
  /\ out.reply = Apology
  /\ out.node = "appointment_confirmation"

\* C9: a step of smart_scheduling sets the duration to 30 for a returning
\* patient and to 60 otherwise, whatever the message and the doctor named in
\* it, and a committed record carries that duration.
C9_Duration ==
  [][\A sid \in Sessions :
       /\ (Processed(sid) /\ out'.node = "smart_scheduling") =>
            sess'[sid].appointment_info.duration =
              IF sess[sid].patient_info.is_returning = "True"
              THEN ReturningDuration ELSE NewDuration
       /\ (Processed(sid) /\ Len(ledger') > Len(ledger)) =>
            /\ ledger'[Len(ledger')].duration_minutes = sess[sid].appointment_info.duration
            /\ ledger'[Len(ledger')].duration_minutes =
                 IF sess[sid].patient_info.is_returning = "True"
                 THEN ReturningDuration ELSE NewDuration]_vars

C9_Witness ==
  /\ \E k \in 1..Len(ledger) :
       ledger[k].is_returning_patient = "True" /\ ledger[k].duration_minutes = ReturningDuration
  /\ \E k \in 1..Len(ledger) :
       ledger[k].is_returning_patient = "False" /\ ledger[k].duration_minutes = NewDuration
  /\ out.node = "smart_scheduling"
  /\ sess[out.sid].current_stage = "smart_scheduling"
  /\ sess[out.sid].appointment_info.duration = ReturningDuration

\* C10: in calendar_integration with N > 0 slots offered, a message that
\* parses as an integer outside 1..N is answered with the valid range and
\* leaves the stage, the offered list, the appointment bag and the three
\* stores as they were.
C10_OutOfRangeReprompts ==
  [][\A sid \in Sessions : \A m \in {x \in AllMsgs : IsInt(x)} :
       ( /\ router([sess[sid] EXCEPT !.msgs = AddMessages(@, 1)]) = "calendar_integration"
         /\ sess[sid].available_slots # <<>>
         /\ ParseInt(m) \notin 1..Len(sess[sid].available_slots)
         /\ process_message(sid, m, DefaultEnv) ) =>
         /\ out'.reply = <<"valid_range", Len(sess[sid].available_slots)>>
         /\ sess'[sid].current_stage = "calendar_integration"
         /\ sess[sid].current_stage = "calendar_integration"
         /\ sess'[sid].available_slots = sess[sid].available_slots
         /\ sess'[sid].appointment_info = sess[sid].appointment_info
         /\ UNCHANGED <<patients, schedule, ledger>>]_vars

C10_Witness ==
  /\ out.op = "process_message"
  /\ out.node = "calendar_integration"
  /\ out.reply = <<"valid_range", 2>>
  /\ Len(sess[out.sid].available_slots) = 2
  /\ sess[out.sid].current_stage = "calendar_integration"

\* C11: in every reachable state the directory holds at most one row per
\* (first_name, last_name, dob), also after a booking by a patient whose row
\* is tagged not returning.
C11_OnePatientPerIdentity ==
  \A i, j \in 1..Len(patients) :
    ( /\ patients[i].first_name = patients[j].first_name
      /\ patients[i].last_name = patients[j].last_name
      /\ patients[i].dob = patients[j].dob ) => i = j

\* C14: once a thread's stage is completed, a further process_message on it
\* leaves the stage completed and changes none of the three stores, with
\* intent schedule as with intent cancel.
C14_CompletedInert ==
  [][\A sid \in Sessions :
       (Processed(sid) /\ sess[sid].current_stage = "completed") =>
         /\ sess'[sid].current_stage = "completed"
         /\ UNCHANGED <<patients, schedule, ledger>>]_vars

\* C16: in every reachable state a slot referenced by a Confirmed record of
\* the ledger is unavailable.
C16_ConfirmedSlotUnavailable ==
  \A k \in 1..Len(ledger) :
    ledger[k].status = "Confirmed" => ~schedule[SlotOf(ledger[k])]

\* C17: once a patient classified new holds a booking that is not cancelled,
\* a patient_lookup that completes for the same first name, last name and
\* date of birth classifies the patient as returning.
C17_ReturningAfterBooking ==
  [][\A sid \in Sessions :
       ( /\ Processed(sid) /\ out'.node = "patient_lookup"
         /\ sess'[sid].current_stage = "smart_scheduling"
         /\ \E k \in 1..Len(ledger) :
              /\ ledger[k].status = "Confirmed"
              /\ ledger[k].is_returning_patient = "False"
              /\ ledger[k].patient_first_name = sess'[sid].patient_info.first_name
              /\ ledger[k].patient_last_name = sess'[sid].patient_info.last_name
              /\ ledger[k].patient_dob = sess'[sid].patient_info.dob ) =>
         sess'[sid].patient_info.is_returning = "True"]_vars

\* the handler the routing rule names for a thread about to take a message
RuleNode(ss) ==
  IF ss.msgs + 1 = 1 THEN "greeting"
  ELSE IF ss.intent = "cancel" THEN "cancellation"
  ELSE IF ss.intent = "schedule"
       THEN (IF ss.current_stage = "" THEN "patient_lookup" ELSE ss.current_stage)
  ELSE (IF ss.current_stage = "" THEN "greeting" ELSE ss.current_stage)

\* C18: the handler run for a message is greeting when the history holds
\* that message alone; otherwise cancellation when the intent is cancel;
\* otherwise the handler of the stored stage, patient_lookup standing for an
\* unset stage under intent schedule and greeting under no intent.
C18_RoutingRule ==
  [][\A sid \in Sessions :
       Processed(sid) =>
         /\ out'.node = RuleNode(sess[sid])
         /\ out'.node \in {"greeting", "patient_lookup", "smart_scheduling",
                           "calendar_integration", "insurance_collection",
                           "appointment_confirmation", "form_distribution",
                           "cancellation", "completed"}]_vars

C18_Witness ==
  /\ out.op = "process_message"
  /\ out.node = "cancellation"
  /\ out.reply[1] = "lookup_miss"
  /\ sess[out.sid].intent = "cancel"
  /\ sess[out.sid].current_stage = "completed"
  /\ \E k \in 1..Len(ledger) :
       /\ ledger[k].status = "Cancelled"
       /\ ledger[k].patient_first_name = sess[out.sid].patient_info.first_name
       /\ ledger[k].patient_last_name = sess[out.sid].patient_info.last_name

\* C19: the intent changes only in the greeting handler, only from unset to
\* schedule or cancel, and keeps its value through every later message
\* until a reset.
C19_IntentSticky ==
  [][\A sid \in Sessions :
       /\ (Processed(sid) /\ sess'[sid].intent # sess[sid].intent) =>
            /\ sess[sid].intent = ""
            /\ sess'[sid].intent \in {"schedule", "cancel"}
            /\ out'.node = "greeting"
       /\ (sess'[sid].intent # sess[sid].intent) =>
            \/ Processed(sid)
            \/ out'.op = "reset_conversation" /\ out'.sid = sid /\ sess'[sid].intent = ""]_vars

C19_Witness ==
  /\ out.op = "process_message"
  /\ out.node = "completed"
  /\ sess[out.sid].intent = "schedule"
  /\ sess[out.sid].current_stage = "completed"
  /\ sess[out.sid].appointment_id # NoId

\* C15: a record enters the ledger with status Confirmed; a step changes
\* nothing of a record but its status, reason and cancellation time, and
\* those only from Confirmed to Cancelled; a Cancelled record is never
\* changed again and no record leaves the ledger.
C15_CancelledTerminal ==
  [][/\ Len(ledger') >= Len(ledger)
     /\ \A k \in 1..Len(ledger') :
          IF k > Len(ledger)
          THEN ledger'[k].status = "Confirmed"
          ELSE /\ ledger[k].status = "Cancelled" => ledger'[k] = ledger[k]
               /\ ledger'[k] # ledger[k] =>
                    /\ ledger[k].status = "Confirmed"
                    /\ ledger'[k].status = "Cancelled"
                    /\ ledger'[k] = [ledger[k] EXCEPT
                                       !.status = "Cancelled",
                                       !.cancellation_reason = ledger'[k].cancellation_reason,
                                       !.cancelled_at = ledger'[k].cancelled_at]]_vars

C15_Witness ==
  /\ out.op = "process_message"
  /\ out.node = "cancellation"
  /\ out.reply[1] = "cancelled"
  /\ now > 0
  /\ \E j, k \in 1..Len(ledger) :
       /\ ledger[j].status = "Cancelled" /\ ledger[j].cancelled_at < now
       /\ ledger[k].status = "Cancelled" /\ ledger[k].cancelled_at = now
       /\ ledger[k].appointment_id = out.reply[2]

\* C13: a process_message or a reset_conversation on one thread leaves the
\* stored state of every other thread as it was.
C13_SessionsIsolated ==
  [][\A a \in Sessions :
       (out'.sid = a /\ out'.op \in {"process_message", "reset_conversation"}) =>
         \A b \in Sessions \ {a} : sess'[b] = sess[b]]_vars

C13_Witness ==
  /\ out.op = "reset_conversation"
  /\ out.sid = "s1"
  /\ sess["s1"].intent = ""
  /\ sess["s1"].available_slots = <<>>
  /\ sess["s2"].intent = "schedule"
  /\ sess["s2"].current_stage = "calendar_integration"
  /\ sess["s2"].available_slots # <<>>
  /\ sess["s2"].patient_info.first_name = "John"

\* the state of the thread of call a after call a and then call b ran one
\* after the other from the checkpoint and the files call a started with
SeqState(a, b) ==
  LET r1 == Invoke(calls[a].snap, UserMessage(calls[a].m), calls[a].st0, now, DefaultEnv)
      r2 == Invoke(r1.ss, UserMessage(calls[b].m), r1.st, now, DefaultEnv)
  IN r2.ss

\* C12: when two overlapping calls of process_message on one thread have
\* both returned, the thread's state is the state one of the two orders
\* of running them one after the other leaves.
C12_StepsSerialized ==
  ( /\ calls["c1"].phase = "done" /\ calls["c2"].phase = "done"
    /\ calls["c1"].sid = calls["c2"].sid ) =>
      sess[calls["c1"].sid] \in {SeqState("c1", "c2"), SeqState("c2", "c1")}

\* the slot a committing call books
CallSlot(c) ==
  Slot(calls[c].snap.appointment_info.doctor_name, calls[c].snap.appointment_info.date,
       calls[c].snap.appointment_info.time)

\* C20: when two overlapping commits of two threads on two different
\* slots have both returned, the ledger holds a Confirmed record for each
\* of the two slots and both slots are unavailable.
C20_ParallelCommitsBothLand ==
  ( /\ calls["c1"].phase = "done" /\ calls["c2"].phase = "done"
    /\ calls["c1"].sid # calls["c2"].sid
    /\ CallNode("c1") = "appointment_confirmation"
    /\ CallNode("c2") = "appointment_confirmation"
    /\ CallSlot("c1") # CallSlot("c2") ) =>
      \A c \in Calls :
        /\ \E k \in 1..Len(ledger) :
             ledger[k].status = "Confirmed" /\ SlotOf(ledger[k]) = CallSlot(c)
        /\ ~schedule[CallSlot(c)]

\* the messages with a cancel keyword, with a schedule keyword, with both
\* and with neither, read off the two keyword lists
CancelWords == {"cancel", "cancel my appointment"}
ScheduleWords == {"book an appointment", "cancel my appointment"}

\* a thread in greeting that has had its first turn
NonFirstGreeting(ss) ==
  ss.msgs >= 1 /\ RuleNode(ss) = "greeting"

\* C21: a message sent to a thread with an empty history, whatever its
\* content, is answered with the welcome and leaves the stage greeting and
\* the intent unset.
C21_FirstTurnWelcome ==
  [][\A sid \in Sessions : \A m \in AllMsgs :
       (sess[sid].msgs = 0 /\ process_message(sid, m, DefaultEnv)) =>
         /\ out'.node = "greeting"
         /\ out'.reply = <<"welcome", 0>>
         /\ sess'[sid].current_stage = "greeting"
         /\ sess'[sid].intent = ""]_vars

C21_Witness ==
  /\ out.op = "process_message"
  /\ out.node = "greeting"
  /\ out.reply = <<"welcome", 0>>
  /\ sess[out.sid].current_stage = "greeting"
  /\ sess[out.sid].intent = ""
  /\ ledger = <<>>

C23_CancelBeforeSchedule ==
  [][\A sid \in Sessions : \A m \in CancelWords \cap ScheduleWords :
       (NonFirstGreeting(sess[sid]) /\ process_message(sid, m, DefaultEnv)) =>
         /\ out'.reply = <<"cancel_ack", 0>>
         /\ sess'[sid].intent = "cancel"
         /\ sess'[sid].current_stage = "cancellation"
         /\ sess'[sid].current_stage # "patient_lookup"]_vars

C23_Witness ==
  /\ out.op = "process_message"
  /\ out.node = "greeting"
  /\ out.reply = <<"cancel_ack", 0>>
  /\ sess[out.sid].intent = "cancel"
  /\ sess[out.sid].current_stage = "cancellation"
  /\ sess[out.sid].patient_info = EmptyPatient

\* the five fields patient_lookup collects, in the order it asks for them
LookupFields == <<"first_name", "last_name", "dob", "location", "email">>

\* the position in LookupFields of the first field still empty (0: none)
FirstUnfilled(info) ==
  IF \A i \in 1..Len(LookupFields) : info[LookupFields[i]] # "" THEN 0
  ELSE CHOOSE i \in 1..Len(LookupFields) :
         /\ info[LookupFields[i]] = ""
         /\ \A j \in 1..(i - 1) : info[LookupFields[j]] # ""

\* C24: a patient_lookup step ends in smart_scheduling exactly when the
\* five fields are filled after it and in patient_lookup otherwise; it
\* changes no field but the first unfilled one (and last_name in the
\* first_name step), and changes no field that was filled.
C24_LookupFields ==
  [][\A sid \in Sessions :
       (Processed(sid) /\ out'.node = "patient_lookup") =>
         LET old == sess[sid].patient_info
             new == sess'[sid].patient_info
             first == FirstUnfilled(old)
         IN /\ sess'[sid].current_stage =
                 IF FirstUnfilled(new) = 0 THEN "smart_scheduling" ELSE "patient_lookup"
            /\ \A i \in 1..Len(LookupFields) :
                 LET fld == LookupFields[i]
                 IN /\ old[fld] # "" => new[fld] = old[fld]
                    /\ new[fld] # old[fld] =>
                         \/ i = first
                         \/ first = 1 /\ fld = "last_name"]_vars

C24_Witness ==
  /\ out.op = "process_message"
  /\ out.node = "patient_lookup"
  /\ out.reply = <<"found_new", 0>>
  /\ sess[out.sid].current_stage = "smart_scheduling"
  /\ FirstUnfilled(sess[out.sid].patient_info) = 0
  /\ sess[out.sid].patient_info.first_name = "Lisa"
  /\ sess[out.sid].patient_info.last_name = "Brown"

\* C25: in calendar_integration with N slots offered, a message that is
\* an integer k in 1..N puts the doctor, date and time of the k-th offered
\* slot into appointment_info and moves to insurance_collection; the
\* offered list, the rest of the bag and the stores stay as they were.
C25_SlotChoiceBinds ==
  [][\A sid \in Sessions : \A m \in {x \in AllMsgs : IsInt(x)} :
       ( /\ RuleNode(sess[sid]) = "calendar_integration"
         /\ ParseInt(m) \in 1..Len(sess[sid].available_slots)
         /\ process_message(sid, m, DefaultEnv) ) =>
         LET chosen == sess[sid].available_slots[ParseInt(m)]
         IN /\ sess'[sid].appointment_info.doctor_name = chosen.doctor_name
            /\ sess'[sid].appointment_info.date = chosen.date
            /\ sess'[sid].appointment_info.time = chosen.time
            /\ sess'[sid].appointment_info.duration = sess[sid].appointment_info.duration
            /\ sess'[sid].current_stage = "insurance_collection"
            /\ sess'[sid].available_slots = sess[sid].available_slots
            /\ UNCHANGED <<patients, schedule, ledger>>]_vars

C25_Witness ==
  /\ out.op = "process_message"
  /\ out.node = "calendar_integration"
  /\ out.reply = <<"slot_chosen", 2>>
  /\ sess[out.sid].current_stage = "insurance_collection"
  /\ Len(sess[out.sid].available_slots) = 2
  /\ sess[out.sid].appointment_info.date = sess[out.sid].available_slots[2].date

\* C26: a calendar_integration step of a thread that has no offered list
\* either offers a list that is not empty or returns to smart_scheduling,
\* whatever the message; it never names an empty range.
C26_FirstEntryQueries ==
  [][\A sid \in Sessions :
       ( /\ Processed(sid) /\ out'.node = "calendar_integration"
         /\ sess[sid].available_slots = <<>> ) =>
         /\ \/ out'.reply[1] = "offer" /\ sess'[sid].available_slots # <<>>
            \/ sess'[sid].current_stage = "smart_scheduling"
         /\ out'.reply # <<"valid_range", 0>>]_vars

\* the doctor has a slot that is in the future and available
HasFreeSlot(doctor) ==
  \E sl \in DOMAIN schedule : sl.doctor_name = doctor /\ sl.date > now /\ schedule[sl]

\* C28: a calendar_integration step that queries the store for a doctor
\* without a future available slot clears the doctor, empties the offered
\* list and returns to smart_scheduling; in smart_scheduling a message
\* naming a doctor selects that doctor and moves to calendar_integration.
C28_NoSlotsFallsBack ==
  [][\A sid \in Sessions :
       /\ \A m \in {x \in AllMsgs : ~IsInt(x)} :
            ( /\ RuleNode(sess[sid]) = "calendar_integration"
              /\ ~HasFreeSlot(sess[sid].appointment_info.doctor_name)
              /\ process_message(sid, m, DefaultEnv) ) =>
              /\ out'.reply = <<"no_slots", 0>>
              /\ sess'[sid].appointment_info.doctor_name = ""
              /\ sess'[sid].available_slots = <<>>
              /\ sess'[sid].current_stage = "smart_scheduling"
       /\ \A m \in {Chen, Rodriguez} :
            ( /\ RuleNode(sess[sid]) = "smart_scheduling"
              /\ process_message(sid, m, DefaultEnv) ) =>
              /\ sess'[sid].appointment_info.doctor_name = m
              /\ sess'[sid].current_stage = "calendar_integration"]_vars

C28_Witness ==
  /\ out.op = "process_message"
  /\ out.node = "calendar_integration"
  /\ out.reply = <<"no_slots", 0>>
  /\ sess[out.sid].current_stage = "smart_scheduling"
  /\ sess[out.sid].appointment_info.doctor_name = ""
  /\ sess[out.sid].available_slots = <<>>
  /\ HasFreeSlot(Chen)

\* C27: a list offered to the user has at most MaxOffered entries; each is a
\* slot of the chosen doctor, in the future and available in the store
\* at the query; the entries are in order of time, none twice; and a slot
\* of that doctor that is in the future, available and not in the list is
\* no earlier than any entry of a full list.
C27_OfferedSlots ==
  [][\A sid \in Sessions :
       (Processed(sid) /\ out'.reply[1] = "offer") =>
         LET L == sess'[sid].available_slots
             doctor == sess[sid].appointment_info.doctor_name
         IN /\ Len(L) = out'.reply[2]
            /\ Len(L) >= 1 /\ Len(L) <= MaxOffered
            /\ \A i \in 1..Len(L) :
                 /\ L[i] \in DOMAIN schedule
                 /\ L[i].doctor_name = doctor
                 /\ L[i].date > now
                 /\ schedule[L[i]]
            /\ \A i, j \in 1..Len(L) : i < j => L[i].date < L[j].date
            /\ \A sl \in DOMAIN schedule :
                 ( /\ sl.doctor_name = doctor /\ sl.date > now /\ schedule[sl]
                   /\ \A i \in 1..Len(L) : L[i] # sl ) =>
                   /\ Len(L) = MaxOffered
                   /\ \A i \in 1..Len(L) : L[i].date < sl.date]_vars

C27_Witness ==
  /\ out.op = "process_message"
  /\ out.reply = <<"offer", MaxOffered>>
  /\ Len(sess[out.sid].available_slots) = MaxOffered
  /\ sess[out.sid].available_slots[1].date = 1
  /\ \E sl \in DOMAIN schedule :
       /\ sl.doctor_name = Chen /\ schedule[sl] /\ sl.date > now
       /\ \A i \in 1..MaxOffered : sess[out.sid].available_slots[i] # sl

\* the messages of the model that hold a self-pay keyword
SelfPayWords == {"self-pay"}

\* what the extraction may return in one turn
Extractions == {[DefaultEnv EXCEPT !.ins = x] : x \in InsResults}

InsuranceFields == {"carrier", "member_id", "group_number"}

\* C29: in insurance_collection a message with a self-pay keyword sets the
\* carrier to Self-Pay and the member id and group number to N/A and moves
\* to appointment_confirmation, whatever the bag held and whatever the
\* extraction would have returned.
C29_SelfPayFirst ==
  [][\A sid \in Sessions : \A m \in SelfPayWords : \A e \in Extractions :
       ( /\ RuleNode(sess[sid]) = "insurance_collection"
         /\ process_message(sid, m, e) ) =>
         /\ sess'[sid].insurance_info.carrier = "Self-Pay"
         /\ sess'[sid].insurance_info.member_id = "N/A"
         /\ sess'[sid].insurance_info.group_number = "N/A"
         /\ sess'[sid].current_stage = "appointment_confirmation"
         /\ out'.reply = <<"self_pay", 0>>]_vars

C29_Witness ==
  /\ out.op = "process_message"
  /\ out.node = "insurance_collection"
  /\ out.reply = <<"self_pay", 0>>
  /\ sess[out.sid].insurance_info.carrier = "Self-Pay"
  /\ sess[out.sid].insurance_info.member_id = "N/A"
  /\ sess[out.sid].current_stage = "appointment_confirmation"

\* C30: in insurance_collection a message without a self-pay keyword
\* changes a field of the insurance bag only to a non-empty extracted
\* value, so a filled field is never emptied; the step ends in
\* appointment_confirmation exactly when the three fields are filled after
\* it and in insurance_collection otherwise.
C30_InsuranceMerge ==
  [][\A sid \in Sessions : \A m \in AllMsgs \ SelfPayWords : \A e \in Extractions :
       ( /\ RuleNode(sess[sid]) = "insurance_collection"
         /\ process_message(sid, m, e) ) =>
         LET old == sess[sid].insurance_info
             new == sess'[sid].insurance_info
         IN /\ \A k \in InsuranceFields :
                 /\ old[k] # "" => new[k] # ""
                 /\ new[k] # old[k] => new[k] # "" /\ new[k] = e.ins[k]
            /\ sess'[sid].current_stage =
                 IF \A k \in InsuranceFields : new[k] # ""
                 THEN "appointment_confirmation" ELSE "insurance_collection"]_vars

C30_Witness ==
  /\ out.op = "process_message"
  /\ out.node = "insurance_collection"
  /\ out.reply = <<"ask_member_id", 0>>
  /\ sess[out.sid].current_stage = "insurance_collection"
  /\ sess[out.sid].insurance_info.carrier = "Aetna"
  /\ sess[out.sid].insurance_info.member_id = ""
  /\ Len(ledger) = 1

\* C31: an insurance_collection turn whose extraction raises or returns no
\* record leaves the insurance bag as it was, stays in
\* insurance_collection, asks again and touches no store.
C31_ExtractionFailure ==
  [][\A sid \in Sessions : \A m \in AllMsgs \ SelfPayWords :
       ( /\ RuleNode(sess[sid]) = "insurance_collection"
         /\ process_message(sid, m, [DefaultEnv EXCEPT !.ins = InsFail]) ) =>
         /\ sess'[sid].insurance_info = sess[sid].insurance_info
         /\ sess'[sid].current_stage = "insurance_collection"
         /\ out'.reply[1] \in {"ask_insurance", "ask_carrier", "ask_member_id",
                               "ask_group_number"}
         /\ ~out'.raised
         /\ UNCHANGED <<patients, schedule, ledger>>]_vars

C31_Witness ==
  /\ out.op = "process_message"
  /\ out.node = "insurance_collection"
  /\ out.reply = <<"ask_insurance", 0>>
  /\ sess[out.sid].current_stage = "insurance_collection"
  /\ sess[out.sid].insurance_info = EmptyInsurance

\* C32: an appointment_confirmation step that writes the ledger appends
\* one Confirmed record that carries the thread's patient, doctor, date,
\* time, duration and insurance, makes the chosen slot unavailable and no
\* other slot different, appends one directory row tagged returning when
\* the patient was classified new and none otherwise, stores the new id in
\* the thread and moves to form_distribution.
C32_CommitEffects ==
  [][\A sid \in Sessions :
       (Processed(sid) /\ out'.node = "appointment_confirmation") =>
         LET ss == sess[sid]
             rec == ledger'[Len(ledger')]
             chosen == Slot(ss.appointment_info.doctor_name, ss.appointment_info.date,
                            ss.appointment_info.time)
         IN /\ Len(ledger') = Len(ledger) + 1
            /\ SubSeq(ledger', 1, Len(ledger)) = ledger
            /\ rec.status = "Confirmed"
            /\ rec.patient_first_name = ss.patient_info.first_name
            /\ rec.patient_last_name = ss.patient_info.last_name
            /\ rec.patient_dob = ss.patient_info.dob
            /\ rec.doctor_name = ss.appointment_info.doctor_name
            /\ rec.appointment_date = ss.appointment_info.date
            /\ rec.appointment_time = ss.appointment_info.time
            /\ rec.duration_minutes = ss.appointment_info.duration
            /\ rec.insurance_carrier = ss.insurance_info.carrier
            /\ rec.insurance_member_id = ss.insurance_info.member_id
            /\ rec.insurance_group_number = ss.insurance_info.group_number
            /\ \A k \in 1..Len(ledger) : ledger[k].appointment_id # rec.appointment_id
            /\ sess'[sid].appointment_id = rec.appointment_id
            /\ sess'[sid].current_stage = "form_distribution"
            /\ ~schedule'[chosen]
            /\ \A sl \in DOMAIN schedule : sl # chosen => schedule'[sl] = schedule[sl]
            /\ IF ss.patient_info.is_returning = "True"
               THEN patients' = patients
               ELSE patients' = Append(patients,
                                       [first_name |-> ss.patient_info.first_name,
                                        last_name |-> ss.patient_info.last_name,
                                        dob |-> ss.patient_info.dob,
                                        is_returning |-> TRUE])]_vars

C32_Witness ==
  /\ out.op = "process_message"
  /\ out.node = "appointment_confirmation"
  /\ out.reply = <<"appointment_confirmed", 2>>
  /\ Len(ledger) = 2
  /\ ledger[2].is_returning_patient = "False"
  /\ ledger[2].patient_first_name = sess[out.sid].patient_info.first_name
  /\ Len(patients) = Len(BasicPatients) + 1
  /\ sess[out.sid].appointment_id = 2
  /\ sess[out.sid].current_stage = "form_distribution"

\* C33: an appointment_confirmation step whose ledger write fails answers
\* with a failure message, not a confirmation, leaves the thread's stage,
\* bags and appointment id as they were and leaves the directory as it was.
C33_LedgerFailureReported ==
  [][\A sid \in Sessions :
       ( /\ Processed(sid) /\ out'.node = "appointment_confirmation"
         /\ ~out'.raised
         /\ ledger' = ledger ) =>
         /\ out'.reply[1] # "appointment_confirmed"
         /\ sess'[sid].current_stage = sess[sid].current_stage
         /\ sess'[sid].patient_info = sess[sid].patient_info
         /\ sess'[sid].appointment_info = sess[sid].appointment_info
         /\ sess'[sid].insurance_info = sess[sid].insurance_info
         /\ sess'[sid].appointment_id = sess[sid].appointment_id
         /\ patients' = patients]_vars

\* C34: a form_distribution step sends the intake form exactly when the
\* patient was classified new, ends in completed whether the patient is
\* returning, the form was delivered or the delivery failed, and changes
\* no store.
C34_FormDistribution ==
  [][\A sid \in Sessions :
       (Processed(sid) /\ out'.node = "form_distribution") =>
         /\ sess'[sid].current_stage = "completed"
         /\ UNCHANGED <<patients, schedule, ledger>>
         /\ out'.reply[1] \in {"forms_sent", "forms_delivery_issue"}
              <=> sess[sid].patient_info.is_returning = "False"
         /\ out'.reply[1] = "no_forms_needed"
              <=> sess[sid].patient_info.is_returning = "True"]_vars

C34_Witness ==
  /\ out.op = "process_message"
  /\ out.node = "form_distribution"
  /\ out.reply = <<"forms_delivery_issue", 0>>
  /\ sess[out.sid].patient_info.is_returning = "False"
  /\ sess[out.sid].current_stage = "completed"

\* the stages one run of the handler of a stage can end in
StagesAfter(node) ==
  CASE node = "greeting" -> {"greeting", "patient_lookup", "cancellation"}
    [] node = "patient_lookup" -> {"patient_lookup", "smart_scheduling"}
    [] node = "smart_scheduling" -> {"smart_scheduling", "calendar_integration"}
    [] node = "calendar_integration" ->
         {"calendar_integration", "smart_scheduling", "insurance_collection"}
    [] node = "insurance_collection" -> {"insurance_collection", "appointment_confirmation"}
    [] node = "appointment_confirmation" -> {"form_distribution"}
    [] node = "form_distribution" -> {"completed"}
    [] node = "cancellation" -> {"cancellation", "completed"}
    [] node = "completed" -> {"completed"}

C36_DirectoryKeepsOldRows ==
  \A i \in 1..Len(BasicPatients) :
    \E j \in 1..Len(patients) : patients[j] = BasicPatients[i]

C39_OneCommitPerConversation ==
  [][/\ Len(ledger') > Len(ledger) =>
          \E sid \in Sessions :
            /\ Processed(sid)
            /\ out'.node = "appointment_confirmation"
            /\ sess[sid].current_stage = "appointment_confirmation"
            /\ sess[sid].appointment_id = NoId
            /\ sess'[sid].appointment_id = ledger'[Len(ledger')].appointment_id
            /\ sess'[sid].current_stage # "appointment_confirmation"
            /\ Len(ledger') = Len(ledger) + 1
     /\ \A sid \in Sessions :
          (sess[sid].appointment_id # NoId /\ Processed(sid)) =>
            /\ sess'[sid].appointment_id = sess[sid].appointment_id
            /\ sess'[sid].current_stage # "appointment_confirmation"
            /\ Len(ledger') <= Len(ledger)
     /\ \A sid \in Sessions :
          RuleNode(sess[sid]) = "appointment_confirmation" =>
            \A m \in AllMsgs :
              LET r == Invoke(sess[sid], UserMessage(m), Stores, now, DefaultEnv)
              IN /\ Len(r.st.ledger) = Len(ledger) + 1
                 /\ r.ss.appointment_id = r.st.ledger[Len(r.st.ledger)].appointment_id]_vars

C39_Witness ==
  /\ out.op = "process_message"
  /\ out.node = "completed"
  /\ sess[out.sid].current_stage = "completed"
  /\ sess[out.sid].intent = "schedule"
  /\ sess[out.sid].appointment_id = 1
  /\ Len(ledger) = 1
  /\ ledger[1].status = "Confirmed"

\* C40: cancel_appointment called with an id that no Confirmed record of
\* the ledger carries (the record is Cancelled, or there is none) returns
\* False and leaves ledger, schedule and patient directory as they were.
C40_CancelledIdRejected ==
  [][\A id \in AppointmentIds :
       ( /\ out'.op = "cancel_appointment"
         /\ out'.reply[2] = id
         /\ ~\E k \in 1..Len(ledger) :
               ledger[k].appointment_id = id /\ ledger[k].status = "Confirmed" ) =>
         /\ out'.reply[1] = "False"
         /\ UNCHANGED <<ledger, schedule, patients>>]_vars

\* the part of C40 that the slot of a Confirmed record is never made
\* available by a call of cancel_appointment on another id
C40_ConfirmedSlotKept ==
  [][\A k \in 1..Len(ledger) :
       ( /\ out'.op = "cancel_appointment"
         /\ ledger[k].status = "Confirmed"
         /\ ledger[k].appointment_id # out'.reply[2]
         /\ ~schedule[SlotOf(ledger[k])] ) =>
         ~schedule'[SlotOf(ledger[k])]]_vars

====
